---- MODULE Spec2Model ----
(***************************************************************************)
(* Model of the n8n Speckle node's data pipeline:                          *)
(*   - SpeckleReferenceResolver (utils/referenceResolver.ts)               *)
(*   - SpeckleObjectFilter      (utils/objectFiltering.ts)                 *)
(*   - flattenRecord            (utils/propertyFlattening.ts)              *)
(* JSON values are encoded as records of one shape so that TLC can compare *)
(* any two of them: k is the JavaScript type tag, s the string payload,    *)
(* n the numeric payload and c the ordered list of own entries (key, val)  *)
(* of a mapping or of an array (keys "0", "1", ...).                       *)
(***************************************************************************)
EXTENDS Integers, Sequences, FiniteSets, TLC

----------------------------------------------------------------------------
(* JSON values *)

Val(k, s, n, c) == [k |-> k, s |-> s, n |-> n, c |-> c]

Undefined == Val("undef", "", 0, <<>>)

Null == Val("null", "", 0, <<>>)

Pending == Val("pending", "", 0, <<>>)

Str(s) == Val("str", s, 0, <<>>)

Num(n) == Val("num", "", n, <<>>)

Entry(key, v) == [key |-> key, val |-> v]

Map(entries) == Val("map", "", 0, entries)

Arr(vals) == Val("arr", "", 0, [i \in 1..Len(vals) |-> Entry(ToString(i - 1), vals[i])])

\* typeof v === 'object' && v !== null
IsObject(v) == v.k \in {"map", "arr"}

\* JavaScript truthiness: null, undefined, "" and 0 are falsy
Truthy(v) ==
    CASE v.k \in {"undef", "null"} -> FALSE
      [] v.k = "str" -> v.s # ""
      [] v.k = "num" -> v.n # 0
      [] OTHER -> TRUE

\* obj[key]: the value of the own entry named key, undefined when absent
Get(obj, key) ==
    IF IsObject(obj) /\ \E i \in 1..Len(obj.c) : obj.c[i].key = key
    THEN obj.c[CHOOSE i \in 1..Len(obj.c) : obj.c[i].key = key].val
    ELSE Undefined

\* key in obj
HasKey(obj, key) == IsObject(obj) /\ \E i \in 1..Len(obj.c) : obj.c[i].key = key

\* Set.add on a Set kept in insertion order
SetAdd(seq, x) == IF \E i \in 1..Len(seq) : seq[i] = x THEN seq ELSE Append(seq, x)

Range(seq) == {seq[i] : i \in 1..Len(seq)}

----------------------------------------------------------------------------
(* SpeckleReferenceResolver *)

\* constructor(logger, maxIterations = 10)
maxIterations == 10

RECURSIVE extractReferencedIds(_, _)
RECURSIVE extractFromValues(_, _, _)

\* extractFromValues that does not descend into nested values
extractFromValues_shallow(entries, i, referencedIds) == referencedIds

\* for (const value of Object.values(obj)) from entry i on
extractFromValues(entries, i, referencedIds) ==
    IF i > Len(entries) THEN referencedIds
    ELSE LET value == entries[i].val
             acc == IF Truthy(value) /\ IsObject(value)
                    THEN extractReferencedIds(value, referencedIds)
                    ELSE referencedIds
         IN extractFromValues(entries, i + 1, acc)

extractReferencedIds(obj, referencedIds) ==
    IF ~Truthy(obj) \/ ~IsObject(obj) THEN referencedIds
    ELSE LET ref == Get(obj, "referencedId")
             acc == IF Truthy(ref) /\ ref.k = "str"
                    THEN SetAdd(referencedIds, ref.s)
                    ELSE referencedIds
         IN extractFromValues(obj.c, 1, acc)

RECURSIVE collectReferencedIds(_, _, _)
\* for (const obj of objects) this.extractReferencedIds(obj, referencedIds)
\* (the ids of one object are added before the next object is visited)
collectReferencedIds(objs, i, referencedIds) ==
    IF i > Len(objs) THEN referencedIds
    ELSE LET added == extractReferencedIds(objs[i], referencedIds)
         IN IF Len(added) >= Len(referencedIds)
            THEN collectReferencedIds(objs, i + 1, added)
            ELSE added

\* existingIdsOf that looks at the first object only
existingIdsOf_first(objs) == {Get(objs[i], "id") : i \in 1..(IF Len(objs) > 0 THEN 1 ELSE 0)}

\* new Set(objects.map(obj => obj.id))
existingIdsOf(objs) == {Get(objs[i], "id") : i \in 1..Len(objs)}

\* missingIdsOf without the existingIds test
missingIdsOf_all(objs) == collectReferencedIds(objs, 1, <<>>)

\* Array.from(missingIds): referenced ids not present, in discovery order
missingIdsOf(objs) ==
    LET referencedIds == collectReferencedIds(objs, 1, <<>>)
        existingIds == existingIdsOf(objs)
    IN SelectSeq(referencedIds, LAMBDA refId : Str(refId) \notin existingIds)

----------------------------------------------------------------------------
(* Objects and loaders the resolver is run on *)

Ids == {"a", "b", "c"}

\* longest input list
MaxInput == 2

NextId(i) == CASE i = "a" -> "b" [] i = "b" -> "c" [] OTHER -> "a"

\* { id }
ObjPlain(id) == Map(<<Entry("id", Str(id))>>)

\* { id, referencedId: r }
ObjRef(id, r) == Map(<<Entry("id", Str(id)), Entry("referencedId", Str(r))>>)

\* { id, referencedId: 7 }
ObjNumRef(id) == Map(<<Entry("id", Str(id)), Entry("referencedId", Num(7))>>)

\* { id, elements: [ { referencedId: r1 }, { definition: { referencedId: r2 } } ] }
ObjDeep(id, r1, r2) ==
    Map(<<Entry("id", Str(id)),
          Entry("elements",
                Arr(<<Map(<<Entry("referencedId", Str(r1))>>),
                      Map(<<Entry("definition", Map(<<Entry("referencedId", Str(r2))>>))>>)>>))>>)

InputObjs ==
    {ObjRef("a", "a"), ObjRef("a", "b"), ObjRef("a", ""), ObjNumRef("a"),
     ObjDeep("a", "b", "c"), ObjRef("b", "a")}

InputLists == UNION {[1..n -> InputObjs] : n \in 0..MaxInput}

\* what loader.getObject({ id }) resolves with when it does not reject: the
\* object itself, the object carrying a further reference (for "b" and "c"),
\* nothing (for "b"), or an object stored under another id (for "c")
StoreObjs(i) ==
    {ObjPlain(i)}
        \cup (IF i \in {"b", "c"} THEN {ObjRef(i, NextId(i))} ELSE {})
        \cup (IF i = "b" THEN {Null} ELSE {})
        \cup (IF i = "c" THEN {ObjPlain("a")} ELSE {})

Stores == {st \in [Ids -> UNION {StoreObjs(i) : i \in Ids}] : \A i \in Ids : st[i] \in StoreObjs(i)}

\* how many of the next getObject calls for an id reject: none, the first one
\* (for "b"), all of them (for "b" and "c")
FailureModes(i) ==
    {0} \cup (IF i = "b" THEN {1} ELSE {})
        \cup (IF i \in {"b", "c"} THEN {maxIterations} ELSE {})

Failures == {f \in [Ids -> 0..maxIterations] : \A i \in Ids : f[i] \in FailureModes(i)}

----------------------------------------------------------------------------
(* SpeckleObjectFilter *)

\* String.prototype.includes
Includes(s, sub) == \E i \in 1..(Len(s) - Len(sub) + 1) : SubSeq(s, i, i + Len(sub) - 1) = sub

\* FIELDS_TO_REMOVE that misses the two later fields
FIELDS_TO_REMOVE_short == <<"__closure">>

FIELDS_TO_REMOVE == <<"__closure", "totalChildrenCount", "renderMaterialProxies">>

\* obj.speckle_type || ''
speckleTypeOf(obj) ==
    IF Truthy(Get(obj, "speckle_type")) THEN Get(obj, "speckle_type") ELSE Str("")

\* shouldExcludeObject that tests DataChunk with includes instead of ===
shouldExcludeObject_loose(obj) ==
    LET speckleType == speckleTypeOf(obj)
    IN \/ Includes(speckleType.s, "Speckle.Core.Models.DataChunk")
       \/ Includes(speckleType.s, "Objects.Other.RawEncoding")

shouldExcludeObject(obj) ==
    LET speckleType == speckleTypeOf(obj)
    IN \/ speckleType = Str("Speckle.Core.Models.DataChunk")
       \/ Includes(speckleType.s, "Objects.Other.RawEncoding")

\* delete cleaned[field]
DeleteKey(obj, field) == Map(SelectSeq(obj.c, LAMBDA e : e.key # field))

RECURSIVE removeFields(_, _)

\* removeFields that stops after the first field it deletes
removeFields_one(cleaned, i) ==
    IF i > Len(FIELDS_TO_REMOVE) THEN cleaned
    ELSE IF HasKey(cleaned, FIELDS_TO_REMOVE[i])
         THEN DeleteKey(cleaned, FIELDS_TO_REMOVE[i])
         ELSE removeFields(cleaned, i + 1)

\* FIELDS_TO_REMOVE.forEach(field => { if (field in cleaned) delete cleaned[field] })
removeFields(cleaned, i) ==
    IF i > Len(FIELDS_TO_REMOVE) THEN cleaned
    ELSE removeFields(IF HasKey(cleaned, FIELDS_TO_REMOVE[i])
                      THEN DeleteKey(cleaned, FIELDS_TO_REMOVE[i])
                      ELSE cleaned, i + 1)

\* objects.map(obj => { const cleaned = { ...obj }; ...; return cleaned })
cleanObjects(objs) == [i \in 1..Len(objs) |-> removeFields(Map(objs[i].c), 1)]

\* the test both branches of filterObjects share for a DataObject
isDataObject(obj) ==
    Includes(speckleTypeOf(obj).s, "DataObject") /\ ~shouldExcludeObject(obj)

\* filterObjects that always takes the fallback branch
filterObjects_nomode(objs) == SelectSeq(objs, LAMBDA obj : ~shouldExcludeObject(obj))

filterObjects(objs) ==
    LET hasDataObjects == \E i \in 1..Len(objs) : isDataObject(objs[i])
    IN IF hasDataObjects
       THEN SelectSeq(objs, isDataObject)
       ELSE SelectSeq(objs, LAMBDA obj : ~shouldExcludeObject(obj))

\* the elements of an array value, in index order
Elements(arr) == [i \in 1..Len(arr.c) |-> arr.c[i].val]

----------------------------------------------------------------------------
(* Property flattening (utils/propertyFlattening.ts)                       *)
(* A parent path is a string; "" stands for both null and '' (the code     *)
(* reads it through parentPath || ''). A Set<string> is a set of strings.  *)

EXCLUDED_PATHS ==
    <<"Composite Structure", "Material Quantities", "Parameters.Type Parameters.Structure">>

\* isPathExcluded that compares the whole path instead of searching in it
isPathExcluded_exact(currentPath) ==
    \E i \in 1..Len(EXCLUDED_PATHS) : currentPath = EXCLUDED_PATHS[i]

isPathExcluded(currentPath) ==
    \E i \in 1..Len(EXCLUDED_PATHS) : Includes(currentPath, EXCLUDED_PATHS[i])

RECURSIVE SplitDot(_)
\* String.prototype.split('.')
SplitDot(s) ==
    IF \E i \in 1..Len(s) : SubSeq(s, i, i) = "."
    THEN LET i == CHOOSE i \in 1..Len(s) :
                      /\ SubSeq(s, i, i) = "."
                      /\ \A j \in 1..(i - 1) : SubSeq(s, j, j) # "."
         IN <<SubSeq(s, 1, i - 1)>> \o SplitDot(SubSeq(s, i + 1, Len(s)))
    ELSE <<s>>

\* Array.prototype.reverse
Reverse(seq) == [i \in 1..Len(seq) |-> seq[Len(seq) + 1 - i]]

RECURSIVE JoinDot(_)
\* Array.prototype.join('.')
JoinDot(seq) ==
    IF Len(seq) = 0 THEN ""
    ELSE IF Len(seq) = 1 THEN seq[1]
    ELSE seq[1] \o "." \o JoinDot(Tail(seq))

\* resolveFieldName that suffixes a name claimed at the root
resolveFieldName_rootsuffix(fieldName, parentPath, existingFieldsSet) ==
    IF fieldName \notin existingFieldsSet THEN fieldName
    ELSE IF parentPath = "" THEN fieldName \o ".root"
    ELSE LET candidates == [depth \in 1..Len(SplitDot(parentPath)) |->
                               fieldName \o "." \o
                               JoinDot(SubSeq(Reverse(SplitDot(parentPath)), 1, depth))]
             free == {d \in 1..Len(candidates) : candidates[d] \notin existingFieldsSet}
         IN IF free # {}
            THEN candidates[CHOOSE d \in free : \A e \in free : d <= e]
            ELSE candidates[Len(candidates)]

\* resolveFieldName that gives up after the nearest parent
resolveFieldName_nearest(fieldName, parentPath, existingFieldsSet) ==
    IF fieldName \notin existingFieldsSet \/ parentPath = "" THEN fieldName
    ELSE fieldName \o "." \o Reverse(SplitDot(parentPath))[1]

resolveFieldName(fieldName, parentPath, existingFieldsSet) ==
    LET currentParentPath == parentPath
        candidateName == fieldName
    IN IF candidateName \notin existingFieldsSet THEN candidateName
       ELSE IF currentParentPath = "" THEN fieldName
       ELSE LET pathParts == SplitDot(currentParentPath)
                reversedParts == Reverse(pathParts)
                candidates == [depth \in 1..Len(reversedParts) |->
                                  fieldName \o "." \o JoinDot(SubSeq(reversedParts, 1, depth))]
                free == {d \in 1..Len(candidates) : candidates[d] \notin existingFieldsSet}
            IN IF free # {}
               THEN candidates[CHOOSE d \in free : \A e \in free : d <= e]
               ELSE candidates[Len(candidates)]

\* value !== null && typeof value === 'object' && !Array.isArray(value)
isRecord(value) == value.k = "map"

\* { ...record, [key]: v }: an own key keeps its place and takes the new value
ObjSet(record, key, v) ==
    IF HasKey(record, key)
    THEN Map([i \in 1..Len(record.c) |->
                 IF record.c[i].key = key THEN Entry(key, v) ELSE record.c[i]])
    ELSE Map(Append(record.c, Entry(key, v)))

RECURSIVE Spread(_, _, _)
\* { ...a, ...b }, entries of b from the i-th on
Spread(a, b, i) ==
    IF i > Len(b.c) THEN a ELSE Spread(ObjSet(a, b.c[i].key, b.c[i].val), b, i + 1)

\* the property key a name is used as: String(name)
KeyText(name) ==
    CASE name.k = "str" -> name.s
      [] name.k = "num" -> ToString(name.n)
      [] name.k = "undef" -> "undefined"

\* { FlattenedRecord, ExistingFieldsSet }
FlatState(record, fields) == [FlattenedRecord |-> record, ExistingFieldsSet |-> fields]

processNameValueRecord(fieldValue, currentParentPath, state) ==
    LET nameField == Get(fieldValue, "name")
        valueField == Get(fieldValue, "value")
    IN IF nameField = Null THEN state
       ELSE LET resolvedName == resolveFieldName(KeyText(nameField), currentParentPath,
                                                 state.ExistingFieldsSet)
                newRecord == ObjSet(state.FlattenedRecord, resolvedName, valueField)
                newFieldsSet == state.ExistingFieldsSet \cup {resolvedName}
            IN FlatState(newRecord, newFieldsSet)

processNullValue(fieldName, currentParentPath, state) ==
    LET resolvedName == resolveFieldName(fieldName, currentParentPath, state.ExistingFieldsSet)
        newRecord == ObjSet(state.FlattenedRecord, resolvedName, Null)
        newFieldsSet == state.ExistingFieldsSet \cup {resolvedName}
    IN FlatState(newRecord, newFieldsSet)

\* processPrimitiveValue that spreads an array into one key per element
processPrimitiveValue_spread(fieldName, fieldValue, currentParentPath, state) ==
    IF fieldValue.k = "arr"
    THEN FlatState(Spread(state.FlattenedRecord,
                          Map([i \in 1..Len(fieldValue.c) |->
                                  Entry(fieldName \o "." \o fieldValue.c[i].key,
                                        fieldValue.c[i].val)]), 1),
                   state.ExistingFieldsSet)
    ELSE FlatState(ObjSet(state.FlattenedRecord, fieldName, fieldValue),
                   state.ExistingFieldsSet \cup {fieldName})

processPrimitiveValue(fieldName, fieldValue, currentParentPath, state) ==
    LET resolvedName == resolveFieldName(fieldName, currentParentPath, state.ExistingFieldsSet)
        newRecord == ObjSet(state.FlattenedRecord, resolvedName, fieldValue)
        newFieldsSet == state.ExistingFieldsSet \cup {resolvedName}
    IN FlatState(newRecord, newFieldsSet)

RECURSIVE flattenRecordImpl(_, _, _)
RECURSIVE flattenFields(_, _, _, _)

\* processNestedRecord that stores the nested record under its path, unflattened
processNestedRecord_keep(fieldValue, newPath, state) ==
    FlatState(ObjSet(state.FlattenedRecord, newPath, fieldValue),
              state.ExistingFieldsSet \cup {newPath})

\* processNestedRecord whose merge lets the accumulated record win
processNestedRecord_accfirst(fieldValue, newPath, state) ==
    LET fieldCount == Len(fieldValue.c)
    IN IF fieldCount = 0 THEN state
       ELSE LET flattened == flattenRecordImpl(fieldValue, newPath, state.ExistingFieldsSet)
                flattenedFieldNames == {flattened.c[i].key : i \in 1..Len(flattened.c)}
                combinedRecord == Spread(flattened, state.FlattenedRecord, 1)
                allFieldsSet == state.ExistingFieldsSet \cup flattenedFieldNames
            IN FlatState(combinedRecord, allFieldsSet)

processNestedRecord(fieldValue, newPath, state) ==
    LET fieldCount == Len(fieldValue.c)
    IN IF fieldCount = 0 THEN state
       ELSE LET flattened == flattenRecordImpl(fieldValue, newPath, state.ExistingFieldsSet)
                flattenedFieldNames == {flattened.c[i].key : i \in 1..Len(flattened.c)}
                combinedRecord == Spread(state.FlattenedRecord, flattened, 1)
                allFieldsSet == state.ExistingFieldsSet \cup flattenedFieldNames
            IN FlatState(combinedRecord, allFieldsSet)

processField(fieldName, fieldValue, currentParentPath, state) ==
    LET newPath == IF currentParentPath = "" THEN fieldName
                   ELSE currentParentPath \o "." \o fieldName
    IN IF isPathExcluded(newPath) THEN state
       ELSE IF isRecord(fieldValue) /\ HasKey(fieldValue, "name") /\ HasKey(fieldValue, "value")
       THEN processNameValueRecord(fieldValue, currentParentPath, state)
       ELSE IF fieldValue = Null
       THEN processNullValue(fieldName, currentParentPath, state)
       ELSE IF isRecord(fieldValue)
       THEN processNestedRecord(fieldValue, newPath, state)
       ELSE processPrimitiveValue(fieldName, fieldValue, currentParentPath, state)

\* for (const fieldName of fieldNames) state = processField(...), from the i-th name on
flattenFields(recordToProcess, i, currentParentPath, state) ==
    IF i > Len(recordToProcess.c) THEN state
    ELSE flattenFields(recordToProcess, i + 1, currentParentPath,
                       processField(recordToProcess.c[i].key, recordToProcess.c[i].val,
                                    currentParentPath, state))

flattenRecordImpl(inputRecord, parentPath, existingFields) ==
    LET currentParentPath == parentPath
        currentExistingFields == existingFields
        recordToProcess ==
            IF inputRecord = Null THEN Null
            ELSE IF isRecord(inputRecord) /\ HasKey(inputRecord, "properties")
            THEN Get(inputRecord, "properties")
            ELSE inputRecord
    IN IF recordToProcess = Null THEN Map(<<>>)
       ELSE IF ~isRecord(recordToProcess) THEN Map(<<Entry("Value", recordToProcess)>>)
       ELSE flattenFields(recordToProcess, 1, currentParentPath,
                          FlatState(Map(<<>>), currentExistingFields)).FlattenedRecord

flattenRecord(inputRecord, parentPath, existingFields) ==
    flattenRecordImpl(inputRecord, parentPath, existingFields)

----------------------------------------------------------------------------
(* Inputs of the Query Objects operation *)

\* most objects in one input array
MaxObjs == 2

\* most input items in one execution
MaxItems == 1

\* { id, speckle_type: t }
TypedObj(t) == Map(<<Entry("id", Str("a")), Entry("speckle_type", Str(t))>>)

\* { __closure, id, totalChildrenCount, speckle_type: t, renderMaterialProxies }
RawObj(t) ==
    Map(<<Entry("__closure", Map(<<Entry("b", Num(1))>>)),
          Entry("id", Str("a")),
          Entry("totalChildrenCount", Num(0)),
          Entry("speckle_type", Str(t)),
          Entry("renderMaterialProxies", Arr(<<>>))>>)

\* { id, totalChildrenCount }: no speckle_type at all
UntypedObj == Map(<<Entry("id", Str("a")), Entry("totalChildrenCount", Num(3))>>)

QueryObjs ==
    {RawObj("Objects.Data.DataObject"),
     TypedObj("Objects.BuiltElements.Wall"),
     TypedObj("Speckle.Core.Models.DataChunk"),
     TypedObj("Speckle.Core.Models.DataChunkList"),
     TypedObj("Objects.Data.DataObject:Objects.Other.RawEncoding.Base64"),
     UntypedObj}

\* items[itemIndex].json: an array of objects, or a lone object
QueryInputs ==
    {Arr(a) : a \in UNION {[1..n -> QueryObjs] : n \in 0..MaxObjs}} \cup {TypedObj("")}

QueryItemLists == UNION {[1..n -> [json : QueryInputs]] : n \in 1..MaxItems}

VARIABLES
    items,            \* the input items of the execution
    continueOnFail,   \* context.continueOnFail()
    itemIndex,
    returnData,
    qpc               \* "idle": not called, "loop": at the for test,
                      \* "done": returned, "threw": the error was rethrown

queryVars == <<items, continueOnFail, itemIndex, returnData, qpc>>

QueryIdle ==
    /\ items = <<>>
    /\ continueOnFail = FALSE
    /\ itemIndex = 0
    /\ returnData = <<>>
    /\ qpc = "idle"

----------------------------------------------------------------------------
(* Inputs of flattenRecord *)

\* most keys on the way from the properties payload down to a leaf
MaxDepth == 2

\* most fields of a flat properties payload
MaxFlat == 2

\* { id, speckle_type, properties: payload }
WithProperties(payload) ==
    Map(<<Entry("id", Str("a")),
          Entry("speckle_type", Str("Objects.Data.DataObject")),
          Entry("properties", payload)>>)

\* { name, units: 'mm', value }
NameValue(name, value) ==
    Map(<<Entry("name", name), Entry("units", Str("mm")), Entry("value", value)>>)

RECURSIVE Chain(_, _)
\* { path[1]: { path[2]: ... leaf } }
Chain(path, leaf) ==
    IF Len(path) = 0 THEN leaf ELSE Map(<<Entry(Head(path), Chain(Tail(path), leaf))>>)

\* what a leaf field of a properties tree holds
Scalars == {Num(600), Str("mm")}

Arrays == {Arr(<<Num(1), Str("x")>>), Arr(<<Map(<<Entry("name", Str("volume")), Entry("value", Num(9))>>)>>)}

NameValues ==
    {NameValue(Str("volume"), Num(1)),
     NameValue(Str("volume"), Num(2)),
     NameValue(Null, Num(3)),
     NameValue(Str("Depth"), Map(<<Entry("a", Num(1))>>))}

\* a nested mapping that has a key named properties next to another key
Sibling == Map(<<Entry("properties", Map(<<Entry("p", Num(5))>>)), Entry("list", Arr(<<Num(7)>>))>>)

\* a nested mapping that holds one name/value field
Dimensions == Map(<<Entry("Depth", NameValue(Str("Depth"), Num(600)))>>)

Leaves == {Num(600), Null, Arr(<<Num(1), Str("x")>>), Map(<<>>), Sibling, Dimensions} \cup NameValues

TopKeys == {"A", "B", "volume"}

TailKeys == {"C", "Composite Structure", "properties"}

\* the keys below the top one, at most MaxDepth - 1 of them
Tails == UNION {[1..n -> TailKeys] : n \in 0..(MaxDepth - 1)}

\* one top-level field of a properties tree
TreeField(k, t, l) == Entry(k, Chain(t, l))

FlatKeys == {"A", "volume", "Value", "properties", "Composite Structure", "Material Quantities"}

FlatValues == Scalars \cup Arrays \cup {Null}

\* flat properties payloads: every value a scalar, null or an array
FlatMaps ==
    {Map(f) : f \in {g \in UNION {[1..n -> [key : FlatKeys, val : FlatValues]] : n \in 0..MaxFlat} :
                        \A i, j \in 1..Len(g) : i # j => g[i].key # g[j].key}}

\* inputs whose value to process is not a mapping, or that have no properties key
Degenerate ==
    LET bare == {Null, Undefined, Num(5), Str("x"), Arr(<<Num(1)>>)}
    IN bare \cup {WithProperties(v) : v \in bare}
            \cup {Map(<<>>), Map(<<Entry("id", Str("a")), Entry("volume", NameValue(Str("volume"), Num(1)))>>)}

\* the parameter trees of a Revit element: Parameters > Type Parameters > group
RevitInputs ==
    {WithProperties(Chain(<<"Parameters", "Type Parameters", "Dimensions", "Depth">>,
                          Map(<<Entry("name", Str("Depth")), Entry("value", Num(600))>>))),
     WithProperties(Map(<<
         Entry("Parameters", Map(<<
             Entry("Type Parameters", Map(<<
                 Entry("Structure", Map(<<Entry("Core", NameValue(Str("Depth"), Num(1)))>>)),
                 Entry("Dimensions", Map(<<Entry("Depth", NameValue(Str("Depth"), Num(600)))>>))>>))>>)),
         Entry("My Material Quantities", Map(<<Entry("Steel", NameValue(Str("volume"), Num(2)))>>))>>))}

\* calls that pass a parent path and a set of claimed names
ParentPaths == {"", "A", "Parameters.Structural", "Parameters.Type Parameters.Dimensions"}

ClaimedNames ==
    {{}, {"volume"}, {"volume", "volume.A"}, {"volume", "volume.Structural"},
     {"volume.Structural"},
     {"volume", "volume.Structural.Parameters"},
     {"volume", "volume.Structural", "volume.Structural.Parameters"},
     {"volume", "volume.Dimensions"},
     {"volume", "volume.Dimensions", "volume.Dimensions.Type Parameters"},
     {"volume", "volume.Dimensions", "volume.Dimensions.Type Parameters",
      "volume.Dimensions.Type Parameters.Parameters"}}

NestedCallInputs ==
    {WithProperties(Map(<<Entry("X", NameValue(Str("volume"), Num(1)))>>)),
     WithProperties(Map(<<Entry("volume", Num(600))>>)),
     WithProperties(Map(<<Entry("volume.A", Num(2)),
                          Entry("A", Map(<<Entry("volume", Num(3))>>))>>)),
     WithProperties(Map(<<Entry("volume", Null),
                          Entry("A", Map(<<Entry("B", Map(<<Entry("volume", Arr(<<Num(1)>>))>>))>>))>>)),
     WithProperties(Map(<<Entry("volume", Num(1)),
                          Entry("volume.A", Num(2)),
                          Entry("A", Map(<<Entry("volume", Num(3))>>)),
                          Entry("B", Num(4))>>))}

VARIABLES
    inputRecord,      \* the record the caller passed, as the caller still holds it
    parentPath,
    existingFields,   \* the Set the caller passed, as the caller still holds it
    flattened,        \* what flattenRecord returned
    fpc               \* "idle": not called, "call": entered, "done": returned

flattenVars == <<inputRecord, parentPath, existingFields, flattened, fpc>>

FlattenIdle ==
    /\ inputRecord = Null
    /\ parentPath = ""
    /\ existingFields = {}
    /\ flattened = Undefined
    /\ fpc = "idle"

----------------------------------------------------------------------------
(* Inputs of Upload File: the status polls of an ingestion *)

\* most input items of one execution
MaxUploads == 1

\* const MAX_POLL_ATTEMPTS = 60
MAX_POLL_ATTEMPTS == 60

\* what one 'check ingestion status' query gives: the request throws, the
\* ingestion record is null, the record has no statusData, its statusData has
\* no status, or its statusData carries one of the five statuses
PollOutcomes ==
    {"throws", "null", "noStatusData", "noStatus",
     "queued", "processing", "success", "failed", "cancelled"}

\* statusData?.status || 'queued'
statusOf(outcome) ==
    IF outcome \in {"noStatusData", "noStatus"} THEN "queued" ELSE outcome

\* { json: { status, ... }, pairedItem: itemIndex }; the item pushed by the
\* catch block has no status
UploadOut(status, idx) == [status |-> status, pairedItem |-> idx]

VARIABLES
    uploadItems,          \* items.length
    uploadContinueOnFail, \* context.continueOnFail()
    uploadItemIndex,
    uploadReturnData,
    upc,                  \* "idle": not called, "item": at the for test,
                          \* "poll": at the while test, "done": returned,
                          \* "threw": the error was rethrown
    pollAttempt,
    importComplete,
    importSuccess,
    statusQueries,        \* status queries issued for the current item
    polled,               \* what the polls of the current item gave, each
                          \* with whether it was attempt 5 or a later one
    reachedPolling        \* the items that reached the poll loop

uploadVars == <<uploadItems, uploadContinueOnFail, uploadItemIndex, uploadReturnData, upc,
                pollAttempt, importComplete, importSuccess, statusQueries, polled,
                reachedPolling>>

UploadIdle ==
    /\ uploadItems = 0
    /\ uploadContinueOnFail = FALSE
    /\ uploadItemIndex = 0
    /\ uploadReturnData = <<>>
    /\ upc = "idle"
    /\ pollAttempt = 0
    /\ importComplete = FALSE
    /\ importSuccess = FALSE
    /\ statusQueries = 0
    /\ polled = {}
    /\ reachedPolling = {}

----------------------------------------------------------------------------
(* Inputs of Load Model: the object loader of an item *)

\* most input items of one execution
MaxLoads == 2

\* { json, pairedItem: itemIndex }: the objects of the model, or { error }
LoadOut(kind, idx) == [json |-> kind, pairedItem |-> idx]

VARIABLES
    loadItems,            \* items.length
    loadContinueOnFail,   \* context.continueOnFail()
    loadItemIndex,
    loadReturnData,
    lpc,                  \* "idle", "item": at the for test, "download",
                          \* "resolve", "finally", "done", "threw"
    loader,               \* "null" or "created"
    rethrow,              \* the catch block rethrew: the finally block runs,
                          \* then the error leaves the handler
    disposeCalls,         \* loader.disposeAsync calls, per item
    disposeRejects,       \* the disposeAsync calls that rejected, per item
    created,              \* the items for which a loader was created
    resultAtDispose       \* the output of each item when disposeAsync was called

loadVars == <<loadItems, loadContinueOnFail, loadItemIndex, loadReturnData, lpc, loader,
              rethrow, disposeCalls, disposeRejects, created, resultAtDispose>>

LoadIdle ==
    /\ loadItems = 0
    /\ loadContinueOnFail = FALSE
    /\ loadItemIndex = 0
    /\ loadReturnData = <<>>
    /\ lpc = "idle"
    /\ loader = "null"
    /\ rethrow = FALSE
    /\ disposeCalls = <<>>
    /\ disposeRejects = <<>>
    /\ created = {}
    /\ resultAtDispose = <<>>

----------------------------------------------------------------------------
(* resolveMissingReferences(loader, objects) as a state machine *)

VARIABLES
    input,            \* the list passed as `objects` when the call was made
    objects,          \* the working list, extended in place
    store,            \* loader: id -> what getObject resolves with
    failures,         \* loader: id -> number of upcoming getObject calls that reject
    iterationCount,
    pc,               \* "loop": at the while test, "await": at await Promise.all,
                      \* "done": returned, "threw": rejected, "idle": not called
    missingIdsArray,
    results,          \* what each fetch promise resolved with, Pending until it settles
    rejected,         \* slots of the batch whose getObject call rejected
    getObjectCalls,   \* id -> number of loader.getObject calls made
    warnings,         \* id -> number of logger.warn calls made
    batches           \* number of Promise.all batches issued

resolverVars == <<input, objects, store, failures, iterationCount, pc, missingIdsArray,
                  results, rejected, getObjectCalls, warnings, batches>>

vars == <<resolverVars, queryVars, flattenVars, uploadVars, loadVars>>

loaderVars == <<store, failures>>

Init ==
    /\ input \in InputLists
    /\ objects = input
    /\ store \in Stores
    /\ failures \in Failures
    /\ iterationCount = 0
    /\ pc = "loop"
    /\ missingIdsArray = <<>>
    /\ results = <<>>
    /\ rejected = {}
    /\ getObjectCalls = [i \in Ids |-> 0]
    /\ warnings = [i \in Ids |-> 0]
    /\ batches = 0
    /\ QueryIdle
    /\ FlattenIdle
    /\ UploadIdle
    /\ LoadIdle

\* while (iterationCount < this.maxIterations) is false: fall out of the loop
Exhausted ==
    /\ pc = "loop"
    /\ ~(iterationCount < maxIterations)
    /\ pc' = "done"
    /\ UNCHANGED <<input, objects, loaderVars, iterationCount, missingIdsArray, results,
                   rejected, getObjectCalls, warnings, batches>>
    /\ UNCHANGED <<queryVars, flattenVars, uploadVars, loadVars>>

\* PassResolved that also gives up on ids that were already warned about
PassResolved_giveup ==
    /\ pc = "loop"
    /\ iterationCount < maxIterations
    /\ iterationCount' = iterationCount + 1
    /\ \A i \in Range(missingIdsOf(objects)) : warnings[i] > 0
    /\ pc' = "done"
    /\ UNCHANGED <<input, objects, loaderVars, missingIdsArray, results, rejected,
                   getObjectCalls, warnings, batches>>
    /\ UNCHANGED <<queryVars, flattenVars, uploadVars, loadVars>>

\* a pass that finds nothing missing: break
PassResolved ==
    /\ pc = "loop"
    /\ iterationCount < maxIterations
    /\ iterationCount' = iterationCount + 1
    /\ Len(missingIdsOf(objects)) = 0
    /\ pc' = "done"
    /\ UNCHANGED <<input, objects, loaderVars, missingIdsArray, results, rejected,
                   getObjectCalls, warnings, batches>>
    /\ UNCHANGED <<queryVars, flattenVars, uploadVars, loadVars>>

\* PassFetch that allows one pass more than the cap
PassFetch_latecap ==
    /\ pc = "loop"
    /\ iterationCount < maxIterations + 1
    /\ iterationCount' = iterationCount + 1
    /\ LET missing == missingIdsOf(objects)
       IN /\ Len(missing) # 0
          /\ missingIdsArray' = missing
          /\ results' = [k \in 1..Len(missing) |-> Pending]
          /\ getObjectCalls' = [i \in DOMAIN getObjectCalls |->
                                  getObjectCalls[i] + Cardinality({k \in 1..Len(missing) : missing[k] = i})]
    /\ rejected' = {}
    /\ batches' = batches + 1
    /\ pc' = "await"
    /\ UNCHANGED <<input, objects, loaderVars, warnings>>
    /\ UNCHANGED <<queryVars, flattenVars, uploadVars, loadVars>>

\* PassFetch without the iteration cap
PassFetch_nocap ==
    /\ pc = "loop"
    /\ iterationCount' = iterationCount + 1
    /\ LET missing == missingIdsOf(objects)
       IN /\ Len(missing) # 0
          /\ missingIdsArray' = missing
          /\ results' = [k \in 1..Len(missing) |-> Pending]
          /\ getObjectCalls' = [i \in DOMAIN getObjectCalls |->
                                  getObjectCalls[i] + Cardinality({k \in 1..Len(missing) : missing[k] = i})]
    /\ rejected' = {}
    /\ batches' = batches + 1
    /\ pc' = "await"
    /\ UNCHANGED <<input, objects, loaderVars, warnings>>
    /\ UNCHANGED <<queryVars, flattenVars, uploadVars, loadVars>>

\* PassFetch that does not fetch an id again once its fetch has failed
PassFetch_noretry ==
    /\ pc = "loop"
    /\ iterationCount < maxIterations
    /\ iterationCount' = iterationCount + 1
    /\ LET found == missingIdsOf(objects)
           missing == SelectSeq(found, LAMBDA i : warnings[i] = 0)
       IN /\ Len(found) # 0
          /\ missingIdsArray' = missing
          /\ results' = [k \in 1..Len(missing) |-> Pending]
          /\ getObjectCalls' = [i \in DOMAIN getObjectCalls |->
                                  getObjectCalls[i] + Cardinality({k \in 1..Len(missing) : missing[k] = i})]
    /\ rejected' = {}
    /\ batches' = batches + 1
    /\ pc' = "await"
    /\ UNCHANGED <<input, objects, loaderVars, warnings>>
    /\ UNCHANGED <<queryVars, flattenVars, uploadVars, loadVars>>

\* a pass that finds missing ids: call loader.getObject for each of them, then
\* await Promise.all
PassFetch ==
    /\ pc = "loop"
    /\ iterationCount < maxIterations
    /\ iterationCount' = iterationCount + 1
    /\ LET missing == missingIdsOf(objects)
       IN /\ Len(missing) # 0
          /\ missingIdsArray' = missing
          /\ results' = [k \in 1..Len(missing) |-> Pending]
          /\ getObjectCalls' = [i \in DOMAIN getObjectCalls |->
                                  getObjectCalls[i] + Cardinality({k \in 1..Len(missing) : missing[k] = i})]
    /\ rejected' = {}
    /\ batches' = batches + 1
    /\ pc' = "await"
    /\ UNCHANGED <<input, objects, loaderVars, warnings>>
    /\ UNCHANGED <<queryVars, flattenVars, uploadVars, loadVars>>

\* FetchResolves with one result variable shared by all the fetches of a batch
FetchResolves_shared(k) ==
    /\ pc = "await"
    /\ k \in 1..Len(results)
    /\ results[k] = Pending
    /\ failures[missingIdsArray[k]] = 0
    /\ results' = [j \in 1..Len(results) |->
                     IF j = k \/ results[j] # Pending THEN store[missingIdsArray[k]] ELSE Pending]
    /\ UNCHANGED <<input, objects, loaderVars, iterationCount, pc, missingIdsArray,
                   rejected, getObjectCalls, warnings, batches>>
    /\ UNCHANGED <<queryVars, flattenVars, uploadVars, loadVars>>

\* loader.getObject({ id: missingId }) resolves: return its value
FetchResolves(k) ==
    /\ pc = "await"
    /\ k \in 1..Len(results)
    /\ results[k] = Pending
    /\ failures[missingIdsArray[k]] = 0
    /\ results' = [results EXCEPT ![k] = store[missingIdsArray[k]]]
    /\ UNCHANGED <<input, objects, loaderVars, iterationCount, pc, missingIdsArray,
                   rejected, getObjectCalls, warnings, batches>>
    /\ UNCHANGED <<queryVars, flattenVars, uploadVars, loadVars>>

\* FetchRejects without the try/catch: the rejection reaches Promise.all
FetchRejects_abort(k) ==
    /\ pc = "await"
    /\ k \in 1..Len(results)
    /\ results[k] = Pending
    /\ failures[missingIdsArray[k]] > 0
    /\ failures' = [failures EXCEPT ![missingIdsArray[k]] = @ - 1]
    /\ rejected' = rejected \cup {k}
    /\ pc' = "threw"
    /\ UNCHANGED <<input, objects, store, iterationCount, missingIdsArray, results,
                   getObjectCalls, warnings, batches>>
    /\ UNCHANGED <<queryVars, flattenVars, uploadVars, loadVars>>

\* loader.getObject({ id: missingId }) rejects: catch, logger.warn, return null
FetchRejects(k) ==
    /\ pc = "await"
    /\ k \in 1..Len(results)
    /\ results[k] = Pending
    /\ failures[missingIdsArray[k]] > 0
    /\ failures' = [failures EXCEPT ![missingIdsArray[k]] = @ - 1]
    /\ warnings' = [warnings EXCEPT ![missingIdsArray[k]] = @ + 1]
    /\ rejected' = rejected \cup {k}
    /\ results' = [results EXCEPT ![k] = Null]
    /\ UNCHANGED <<input, objects, store, iterationCount, pc, missingIdsArray,
                   getObjectCalls, batches>>
    /\ UNCHANGED <<queryVars, flattenVars, uploadVars, loadVars>>

\* Join that does not wait for the whole batch (Promise.race in place of Promise.all)
Join_early ==
    /\ pc = "await"
    /\ \E k \in 1..Len(results) : results[k] # Pending
    /\ objects' = objects \o SelectSeq(results, LAMBDA r : r # Pending /\ Truthy(r))
    /\ pc' = "loop"
    /\ missingIdsArray' = <<>>
    /\ results' = <<>>
    /\ rejected' = {}
    /\ UNCHANGED <<input, loaderVars, iterationCount, getObjectCalls, warnings, batches>>
    /\ UNCHANGED <<queryVars, flattenVars, uploadVars, loadVars>>

\* Join that puts the fetched objects in front of the list
Join_prepend ==
    /\ pc = "await"
    /\ \A k \in 1..Len(results) : results[k] # Pending
    /\ objects' = SelectSeq(results, Truthy) \o objects
    /\ pc' = "loop"
    /\ missingIdsArray' = <<>>
    /\ results' = <<>>
    /\ rejected' = {}
    /\ UNCHANGED <<input, loaderVars, iterationCount, getObjectCalls, warnings, batches>>
    /\ UNCHANGED <<queryVars, flattenVars, uploadVars, loadVars>>

\* Promise.all(fetchPromises) resolves once every promise has:
\* results.forEach(obj => { if (obj) objects.push(obj) })
Join ==
    /\ pc = "await"
    /\ \A k \in 1..Len(results) : results[k] # Pending
    /\ objects' = objects \o SelectSeq(results, Truthy)
    /\ pc' = "loop"
    /\ missingIdsArray' = <<>>
    /\ results' = <<>>
    /\ rejected' = {}
    /\ UNCHANGED <<input, loaderVars, iterationCount, getObjectCalls, warnings, batches>>
    /\ UNCHANGED <<queryVars, flattenVars, uploadVars, loadVars>>

Next ==
    \/ Exhausted
    \/ PassResolved
    \/ PassFetch
    \/ \E k \in 1..maxIterations : FetchResolves(k)
    \/ \E k \in 1..maxIterations : FetchRejects(k)
    \/ Join

Spec == Init /\ [][Next]_vars

----------------------------------------------------------------------------
(* resolveMissingReferences on a chain of references longer than the cap *)

\* longest chain of objects that each reference the next one
MaxChain == 12

\* the ids of the chain: "0" is the input object, "k" the k-th object behind it
ChainIds == {ToString(k) : k \in 0..MaxChain}

\* the k-th object of a chain of n: it references the next one, and with
\* back also the input object; the last one references nothing
ChainObj(k, n, back) ==
    IF k >= n THEN ObjPlain(ToString(k))
    ELSE IF back THEN ObjDeep(ToString(k), ToString(k + 1), "0")
    ELSE ObjRef(ToString(k), ToString(k + 1))

\* the loader rejects the first getObject call for one id of the chain, or none
ChainFailures == {[i \in ChainIds |-> IF i = j THEN 1 ELSE 0] : j \in {"none", "1", "2"}}

ChainInit ==
    /\ \E n \in 0..MaxChain, back \in BOOLEAN :
          /\ input = <<ChainObj(0, n, back)>>
          /\ store = [i \in ChainIds |->
                        ChainObj(CHOOSE k \in 0..MaxChain : ToString(k) = i, n, back)]
    /\ objects = input
    /\ failures \in ChainFailures
    /\ iterationCount = 0
    /\ pc = "loop"
    /\ missingIdsArray = <<>>
    /\ results = <<>>
    /\ rejected = {}
    /\ getObjectCalls = [i \in ChainIds |-> 0]
    /\ warnings = [i \in ChainIds |-> 0]
    /\ batches = 0
    /\ QueryIdle
    /\ FlattenIdle
    /\ UploadIdle
    /\ LoadIdle

ChainSpec == ChainInit /\ [][Next]_vars

----------------------------------------------------------------------------
(* handleQueryObjects(context, items) as a state machine *)

ResolverIdle ==
    /\ input = <<>>
    /\ objects = <<>>
    /\ store = [i \in Ids |-> Null]
    /\ failures = [i \in Ids |-> 0]
    /\ iterationCount = 0
    /\ pc = "idle"
    /\ missingIdsArray = <<>>
    /\ results = <<>>
    /\ rejected = {}
    /\ getObjectCalls = [i \in Ids |-> 0]
    /\ warnings = [i \in Ids |-> 0]
    /\ batches = 0

QueryInit ==
    /\ items \in QueryItemLists
    /\ continueOnFail \in BOOLEAN
    /\ itemIndex = 0
    /\ returnData = <<>>
    /\ qpc = "loop"
    /\ ResolverIdle
    /\ FlattenIdle
    /\ UploadIdle
    /\ LoadIdle

\* { json: obj, pairedItem: itemIndex }
OutItem(obj, idx) == [json |-> obj, pairedItem |-> idx]

\* QueryItem whose cleanObjects deletes the fields on the input objects themselves
QueryItem_inplace ==
    /\ qpc = "loop"
    /\ itemIndex < Len(items)
    /\ LET inputData == items[itemIndex + 1].json
       IN /\ inputData.k = "arr"
          /\ LET cleanedObjects == cleanObjects(Elements(inputData))
                 filteredObjects == filterObjects(cleanedObjects)
             IN /\ returnData' = returnData \o
                       [i \in 1..Len(filteredObjects) |-> OutItem(filteredObjects[i], itemIndex)]
                /\ items' = [items EXCEPT ![itemIndex + 1].json = Arr(cleanedObjects)]
    /\ itemIndex' = itemIndex + 1
    /\ UNCHANGED <<continueOnFail, qpc>>
    /\ UNCHANGED <<resolverVars, flattenVars, uploadVars, loadVars>>

\* one turn of the for loop on an array: clean, filter, push one item per object
QueryItem ==
    /\ qpc = "loop"
    /\ itemIndex < Len(items)
    /\ LET inputData == items[itemIndex + 1].json
       IN /\ inputData.k = "arr"
          /\ LET cleanedObjects == cleanObjects(Elements(inputData))
                 filteredObjects == filterObjects(cleanedObjects)
             IN returnData' = returnData \o
                    [i \in 1..Len(filteredObjects) |-> OutItem(filteredObjects[i], itemIndex)]
    /\ itemIndex' = itemIndex + 1
    /\ UNCHANGED <<items, continueOnFail, qpc>>
    /\ UNCHANGED <<resolverVars, flattenVars, uploadVars, loadVars>>

\* one turn on a non-array with continueOnFail: push { error: message }
QueryItemError ==
    /\ qpc = "loop"
    /\ itemIndex < Len(items)
    /\ items[itemIndex + 1].json.k # "arr"
    /\ continueOnFail
    /\ returnData' = Append(returnData,
          OutItem(Map(<<Entry("error", Str("Input must be an array of objects. Connect this to the output of Load Model operation."))>>),
                  itemIndex))
    /\ itemIndex' = itemIndex + 1
    /\ UNCHANGED <<items, continueOnFail, qpc>>
    /\ UNCHANGED <<resolverVars, flattenVars, uploadVars, loadVars>>

\* one turn on a non-array without continueOnFail: the error is rethrown
QueryItemThrow ==
    /\ qpc = "loop"
    /\ itemIndex < Len(items)
    /\ items[itemIndex + 1].json.k # "arr"
    /\ ~continueOnFail
    /\ qpc' = "threw"
    /\ UNCHANGED <<items, continueOnFail, itemIndex, returnData>>
    /\ UNCHANGED <<resolverVars, flattenVars, uploadVars, loadVars>>

\* the for test fails: return returnData
QueryReturn ==
    /\ qpc = "loop"
    /\ ~(itemIndex < Len(items))
    /\ qpc' = "done"
    /\ UNCHANGED <<items, continueOnFail, itemIndex, returnData>>
    /\ UNCHANGED <<resolverVars, flattenVars, uploadVars, loadVars>>

QueryNext ==
    \/ QueryItem
    \/ QueryItemError
    \/ QueryItemThrow
    \/ QueryReturn

QuerySpec == QueryInit /\ [][QueryNext]_vars

----------------------------------------------------------------------------
(* flattenRecord(inputRecord, parentPath, existingFields) as a state machine *)

\* a call with the default parent path and no claimed names
DefaultCall(record) ==
    /\ inputRecord = record
    /\ parentPath = ""
    /\ existingFields = {}

FlattenInit ==
    /\ \/ \E k1 \in TopKeys, t1 \in Tails, l1 \in Leaves :
             \/ DefaultCall(WithProperties(Map(<<TreeField(k1, t1, l1)>>)))
             \/ \E k2 \in TopKeys \ {k1}, t2 \in Tails, l2 \in Leaves :
                   DefaultCall(WithProperties(Map(<<TreeField(k1, t1, l1),
                                                    TreeField(k2, t2, l2)>>)))
       \/ \E payload \in FlatMaps : DefaultCall(WithProperties(payload))
       \/ \E record \in Degenerate \cup RevitInputs : DefaultCall(record)
       \/ /\ inputRecord \in NestedCallInputs
          /\ parentPath \in ParentPaths
          /\ existingFields \in ClaimedNames
    /\ flattened = Undefined
    /\ fpc = "call"
    /\ ResolverIdle
    /\ QueryIdle
    /\ UploadIdle
    /\ LoadIdle

\* the call runs to its return; it builds new records and new Sets only
FlattenCall ==
    /\ fpc = "call"
    /\ flattened' = flattenRecord(inputRecord, parentPath, existingFields)
    /\ fpc' = "done"
    /\ UNCHANGED <<inputRecord, parentPath, existingFields>>
    /\ UNCHANGED <<resolverVars, queryVars, uploadVars, loadVars>>

FlattenNext == FlattenCall

FlattenSpec == FlattenInit /\ [][FlattenNext]_vars

----------------------------------------------------------------------------
(* One call of either operation: what each leaves of the values it was given *)

CallInit == QueryInit \/ FlattenInit

CallNext == QueryNext \/ FlattenNext

CallSpec == CallInit /\ [][CallNext]_vars

----------------------------------------------------------------------------
(* handleUploadFile(context, items) as a state machine: the poll loop *)

UploadInit ==
    /\ uploadItems \in 1..MaxUploads
    /\ uploadContinueOnFail \in BOOLEAN
    /\ uploadItemIndex = 0
    /\ uploadReturnData = <<>>
    /\ upc = "item"
    /\ pollAttempt = 0
    /\ importComplete = FALSE
    /\ importSuccess = FALSE
    /\ statusQueries = 0
    /\ polled = {}
    /\ reachedPolling = {}
    /\ ResolverIdle
    /\ QueryIdle
    /\ FlattenIdle
    /\ LoadIdle

\* steps 1 to 7 succeed: the ingestion has an id and the poll loop is entered
UploadStart ==
    /\ upc = "item"
    /\ uploadItemIndex < uploadItems
    /\ pollAttempt' = 0
    /\ importComplete' = FALSE
    /\ importSuccess' = FALSE
    /\ statusQueries' = 0
    /\ polled' = {}
    /\ reachedPolling' = reachedPolling \cup {uploadItemIndex}
    /\ upc' = "poll"
    /\ UNCHANGED <<uploadItems, uploadContinueOnFail, uploadItemIndex, uploadReturnData>>
    /\ UNCHANGED <<resolverVars, queryVars, flattenVars, loadVars>>

\* one of steps 1 to 7 throws, with continueOnFail: push { success: false, error }
UploadStepFails ==
    /\ upc = "item"
    /\ uploadItemIndex < uploadItems
    /\ uploadContinueOnFail
    /\ uploadReturnData' = Append(uploadReturnData, UploadOut("none", uploadItemIndex))
    /\ uploadItemIndex' = uploadItemIndex + 1
    /\ UNCHANGED <<uploadItems, uploadContinueOnFail, upc, pollAttempt, importComplete,
                   importSuccess, statusQueries, polled, reachedPolling>>
    /\ UNCHANGED <<resolverVars, queryVars, flattenVars, loadVars>>

\* one of steps 1 to 7 throws, without continueOnFail: the error is rethrown
UploadStepThrows ==
    /\ upc = "item"
    /\ uploadItemIndex < uploadItems
    /\ ~uploadContinueOnFail
    /\ upc' = "threw"
    /\ UNCHANGED <<uploadItems, uploadContinueOnFail, uploadItemIndex, uploadReturnData,
                   pollAttempt, importComplete, importSuccess, statusQueries, polled,
                   reachedPolling>>
    /\ UNCHANGED <<resolverVars, queryVars, flattenVars, loadVars>>

\* the poll loop issues one more status query, which gives outcome
PollQuery(outcome) ==
    /\ upc = "poll"
    /\ pollAttempt < MAX_POLL_ATTEMPTS /\ ~importComplete
    /\ pollAttempt' = pollAttempt + 1
    /\ statusQueries' = statusQueries + 1
    /\ polled' = polled \cup {<<outcome, pollAttempt + 1 >= 5>>}

\* executeGraphQLQuery throws: warn and continue
PollThrows ==
    /\ PollQuery("throws")
    /\ UNCHANGED <<uploadItems, uploadContinueOnFail, uploadItemIndex, uploadReturnData, upc,
                   importComplete, importSuccess, reachedPolling>>
    /\ UNCHANGED <<resolverVars, queryVars, flattenVars, loadVars>>

\* the ingestion record is null: complete without success from attempt 5 on
PollNull ==
    /\ PollQuery("null")
    /\ importComplete' = (pollAttempt' >= 5)
    /\ importSuccess' = IF pollAttempt' >= 5 THEN FALSE ELSE importSuccess
    /\ UNCHANGED <<uploadItems, uploadContinueOnFail, uploadItemIndex, uploadReturnData, upc,
                   reachedPolling>>
    /\ UNCHANGED <<resolverVars, queryVars, flattenVars, loadVars>>

\* the record has statusData: complete on success, failed and cancelled
PollStatus ==
    /\ \E outcome \in PollOutcomes \ {"throws", "null", "noStatusData"} :
          /\ PollQuery(outcome)
          /\ LET status == statusOf(outcome)
             IN /\ importComplete' = (status \in {"success", "failed", "cancelled"})
                /\ importSuccess' = IF status = "success" THEN TRUE
                                    ELSE IF status \in {"failed", "cancelled"} THEN FALSE
                                    ELSE importSuccess
    /\ UNCHANGED <<uploadItems, uploadContinueOnFail, uploadItemIndex, uploadReturnData, upc,
                   reachedPolling>>
    /\ UNCHANGED <<resolverVars, queryVars, flattenVars, loadVars>>

\* the record has no statusData: status is 'queued', then reading
\* statusData.__typename throws a TypeError, which the catch block of the
\* item turns into { success: false, error } when continueOnFail is set
PollNoStatusDataCaught ==
    /\ PollQuery("noStatusData")
    /\ uploadContinueOnFail
    /\ uploadReturnData' = Append(uploadReturnData, UploadOut("none", uploadItemIndex))
    /\ uploadItemIndex' = uploadItemIndex + 1
    /\ upc' = "item"
    /\ UNCHANGED <<uploadItems, uploadContinueOnFail, importComplete, importSuccess,
                   reachedPolling>>
    /\ UNCHANGED <<resolverVars, queryVars, flattenVars, loadVars>>

\* the same TypeError without continueOnFail: it is rethrown
PollNoStatusDataThrown ==
    /\ PollQuery("noStatusData")
    /\ ~uploadContinueOnFail
    /\ upc' = "threw"
    /\ UNCHANGED <<uploadItems, uploadContinueOnFail, uploadItemIndex, uploadReturnData,
                   importComplete, importSuccess, reachedPolling>>
    /\ UNCHANGED <<resolverVars, queryVars, flattenVars, loadVars>>

\* the status of the item pushed in step 9
resultStatus ==
    IF importSuccess THEN "success"
    ELSE IF importComplete /\ ~importSuccess THEN "error"
    ELSE "timeout"

\* the while test fails: push the result of the item
UploadResult ==
    /\ upc = "poll"
    /\ ~(pollAttempt < MAX_POLL_ATTEMPTS /\ ~importComplete)
    /\ uploadReturnData' = Append(uploadReturnData, UploadOut(resultStatus, uploadItemIndex))
    /\ uploadItemIndex' = uploadItemIndex + 1
    /\ upc' = "item"
    /\ UNCHANGED <<uploadItems, uploadContinueOnFail, pollAttempt, importComplete,
                   importSuccess, statusQueries, polled, reachedPolling>>
    /\ UNCHANGED <<resolverVars, queryVars, flattenVars, loadVars>>

\* the for test fails: return returnData
UploadReturn ==
    /\ upc = "item"
    /\ ~(uploadItemIndex < uploadItems)
    /\ upc' = "done"
    /\ UNCHANGED <<uploadItems, uploadContinueOnFail, uploadItemIndex, uploadReturnData,
                   pollAttempt, importComplete, importSuccess, statusQueries, polled,
                   reachedPolling>>
    /\ UNCHANGED <<resolverVars, queryVars, flattenVars, loadVars>>

UploadNext ==
    \/ UploadStart
    \/ UploadStepFails
    \/ UploadStepThrows
    \/ PollThrows
    \/ PollNull
    \/ PollStatus
    \/ PollNoStatusDataCaught
    \/ PollNoStatusDataThrown
    \/ UploadResult
    \/ UploadReturn

UploadSpec == UploadInit /\ [][UploadNext]_vars

----------------------------------------------------------------------------
(* handleLoadModel(context, items) as a state machine *)

LoadInit ==
    /\ loadItems \in 1..MaxLoads
    /\ loadContinueOnFail \in BOOLEAN
    /\ loadItemIndex = 0
    /\ loadReturnData = <<>>
    /\ lpc = "item"
    /\ loader = "null"
    /\ rethrow = FALSE
    /\ disposeCalls = [i \in 0..(loadItems - 1) |-> 0]
    /\ disposeRejects = [i \in 0..(loadItems - 1) |-> 0]
    /\ created = {}
    /\ resultAtDispose = [i \in 0..(loadItems - 1) |-> <<>>]
    /\ ResolverIdle
    /\ QueryIdle
    /\ FlattenIdle
    /\ UploadIdle

\* the results pushed for input item idx
LoadResultsOf(idx) == SelectSeq(loadReturnData, LAMBDA r : r.pairedItem = idx)

\* parsing the URL or fetching the metadata throws, with continueOnFail: push
\* { error }; the finally block finds loader null
LoadMetadataFails ==
    /\ lpc = "item"
    /\ loadItemIndex < loadItems
    /\ loadContinueOnFail
    /\ loadReturnData' = Append(loadReturnData, LoadOut("error", loadItemIndex))
    /\ loadItemIndex' = loadItemIndex + 1
    /\ UNCHANGED <<loadItems, loadContinueOnFail, lpc, loader, rethrow, disposeCalls,
                   disposeRejects, created, resultAtDispose>>
    /\ UNCHANGED <<resolverVars, queryVars, flattenVars, uploadVars>>

\* the same without continueOnFail: the error is rethrown, loader is null
LoadMetadataThrows ==
    /\ lpc = "item"
    /\ loadItemIndex < loadItems
    /\ ~loadContinueOnFail
    /\ lpc' = "threw"
    /\ UNCHANGED <<loadItems, loadContinueOnFail, loadItemIndex, loadReturnData, loader,
                   rethrow, disposeCalls, disposeRejects, created, resultAtDispose>>
    /\ UNCHANGED <<resolverVars, queryVars, flattenVars, uploadVars>>

\* loader = ObjectLoader2Factory.createFromUrl(...)
LoadCreate ==
    /\ lpc = "item"
    /\ loadItemIndex < loadItems
    /\ loader' = "created"
    /\ created' = created \cup {loadItemIndex}
    /\ lpc' = "download"
    /\ UNCHANGED <<loadItems, loadContinueOnFail, loadItemIndex, loadReturnData, rethrow,
                   disposeCalls, disposeRejects, resultAtDispose>>
    /\ UNCHANGED <<resolverVars, queryVars, flattenVars, uploadVars>>

\* for await (const obj of loader.getObjectIterator()) runs to its end
LoadDownload ==
    /\ lpc = "download"
    /\ lpc' = "resolve"
    /\ UNCHANGED <<loadItems, loadContinueOnFail, loadItemIndex, loadReturnData, loader,
                   rethrow, disposeCalls, disposeRejects, created, resultAtDispose>>
    /\ UNCHANGED <<resolverVars, queryVars, flattenVars, uploadVars>>

\* LoadFails whose rethrow leaves the handler without running the finally block
LoadFails_nofinally ==
    /\ lpc \in {"download", "resolve"}
    /\ IF loadContinueOnFail
       THEN /\ loadReturnData' = Append(loadReturnData, LoadOut("error", loadItemIndex))
            /\ lpc' = "finally"
            /\ UNCHANGED rethrow
       ELSE /\ lpc' = "threw"
            /\ UNCHANGED <<loadReturnData, rethrow>>
    /\ UNCHANGED <<loadItems, loadContinueOnFail, loadItemIndex, loader, disposeCalls,
                   disposeRejects, created, resultAtDispose>>
    /\ UNCHANGED <<resolverVars, queryVars, flattenVars, uploadVars>>

\* the download or the reference resolution throws: the catch block pushes
\* { error } with continueOnFail and rethrows without it
LoadFails ==
    /\ lpc \in {"download", "resolve"}
    /\ IF loadContinueOnFail
       THEN /\ loadReturnData' = Append(loadReturnData, LoadOut("error", loadItemIndex))
            /\ UNCHANGED rethrow
       ELSE /\ rethrow' = TRUE
            /\ UNCHANGED loadReturnData
    /\ lpc' = "finally"
    /\ UNCHANGED <<loadItems, loadContinueOnFail, loadItemIndex, loader, disposeCalls,
                   disposeRejects, created, resultAtDispose>>
    /\ UNCHANGED <<resolverVars, queryVars, flattenVars, uploadVars>>

\* resolveMissingReferences returns: push the objects
LoadResolved ==
    /\ lpc = "resolve"
    /\ loadReturnData' = Append(loadReturnData, LoadOut("objects", loadItemIndex))
    /\ lpc' = "finally"
    /\ UNCHANGED <<loadItems, loadContinueOnFail, loadItemIndex, loader, rethrow,
                   disposeCalls, disposeRejects, created, resultAtDispose>>
    /\ UNCHANGED <<resolverVars, queryVars, flattenVars, uploadVars>>

\* the finally block: await loader.disposeAsync(), whose rejection is ignored;
\* then the next item, or the rethrown error leaves the handler
LoadDispose ==
    /\ lpc = "finally"
    /\ loader # "null"
    /\ disposeCalls' = [disposeCalls EXCEPT ![loadItemIndex] = @ + 1]
    /\ \E rejects \in BOOLEAN :
          disposeRejects' = [disposeRejects EXCEPT ![loadItemIndex] = IF rejects THEN @ + 1 ELSE @]
    /\ resultAtDispose' = [resultAtDispose EXCEPT ![loadItemIndex] = LoadResultsOf(loadItemIndex)]
    /\ IF rethrow
       THEN /\ lpc' = "threw"
            /\ UNCHANGED <<loadItemIndex, loader>>
       ELSE /\ lpc' = "item"
            /\ loadItemIndex' = loadItemIndex + 1
            /\ loader' = "null"
    /\ UNCHANGED <<loadItems, loadContinueOnFail, loadReturnData, rethrow, created>>
    /\ UNCHANGED <<resolverVars, queryVars, flattenVars, uploadVars>>

\* the for test fails: return returnData
LoadReturn ==
    /\ lpc = "item"
    /\ ~(loadItemIndex < loadItems)
    /\ lpc' = "done"
    /\ UNCHANGED <<loadItems, loadContinueOnFail, loadItemIndex, loadReturnData, loader,
                   rethrow, disposeCalls, disposeRejects, created, resultAtDispose>>
    /\ UNCHANGED <<resolverVars, queryVars, flattenVars, uploadVars>>

LoadNext ==
    \/ LoadMetadataFails
    \/ LoadMetadataThrows
    \/ LoadCreate
    \/ LoadDownload
    \/ LoadFails
    \/ LoadResolved
    \/ LoadDispose
    \/ LoadReturn

LoadSpec == LoadInit /\ [][LoadNext]_vars

----------------------------------------------------------------------------
(* Properties of the reference resolver *)

IsPrefix(a, b) == Len(a) <= Len(b) /\ SubSeq(b, 1, Len(a)) = a

RECURSIVE RefValues(_)
\* every value stored under a key named referencedId, at any depth of v
RefValues(v) ==
    IF ~IsObject(v) THEN {}
    ELSE UNION {(IF v.c[i].key = "referencedId" THEN {v.c[i].val} ELSE {})
                    \cup RefValues(v.c[i].val) : i \in 1..Len(v.c)}

\* the string-valued referencedId values of a set of objects
StringRefs(objs) == {r \in UNION {RefValues(o) : o \in objs} : r.k = "str"}

IdValues(objs) == {Get(o, "id") : o \in objs}

AllSettled == \A k \in 1..Len(results) : results[k] # Pending

\* the loader rejects every getObject call made for id i during this call
AlwaysFails(i) == failures[i] + warnings[i] >= maxIterations

pcRank == CASE pc = "await" -> 3 [] pc = "loop" -> 2 [] OTHER -> 1

\* passes left, then position in the pass, then fetches in flight
Measure ==
    <<maxIterations - iterationCount, pcRank,
      Cardinality({k \in 1..Len(results) : results[k] = Pending})>>

LexLess(x, y) ==
    \/ x[1] < y[1]
    \/ x[1] = y[1] /\ x[2] < y[2]
    \/ x[1] = y[1] /\ x[2] = y[2] /\ x[3] < y[3]

\* C1: resolveMissingReferences terminates within 10 passes: every step of
\* the call lowers a measure bounded below (passes left, position in the pass,
\* fetches in flight), and it never issues more than 10 fetch batches.
C1_TerminatesWithinCap ==
    [][/\ LexLess(Measure', Measure)
       /\ Measure'[1] >= 0
       /\ batches' <= maxIterations
       /\ iterationCount' <= maxIterations]_vars

\* the call returned after the cap of 10 batches
C1_Witness == pc = "done" /\ batches = maxIterations /\ iterationCount = maxIterations

\* C2 (as stated): when the call returns after fewer than 10 fetch batches,
\* every string-valued referencedId at any depth equals the id of an object
\* of the set.
C2_Original ==
    (pc = "done" /\ batches < maxIterations)
        => \A r \in StringRefs(Range(objects)) : r \in IdValues(Range(objects))

\* C2 (amended): when the call returns after fewer than 10 fetch batches,
\* every non-empty string-valued referencedId at any depth equals the id of
\* an object of the set.
C2_ResolvedOnEarlyReturn ==
    (pc = "done" /\ batches < maxIterations)
        => \A r \in StringRefs(Range(objects)) : r.s # "" => r \in IdValues(Range(objects))

\* an early return after fetching for references nested in arrays and mappings
C2_Witness ==
    /\ pc = "done"
    /\ batches \in 1..(maxIterations - 1)
    /\ ObjDeep("a", "b", "c") \in Range(input)
    /\ {Str("b"), Str("c")} \subseteq IdValues(Range(objects))

\* C3: if every referencedId of the input equals the id of an input object,
\* the call makes exactly one pass, fetches nothing and leaves the list as
\* it was.
C3_NoFetchWhenResolved ==
    (\A r \in UNION {RefValues(o) : o \in Range(input)} : r \in IdValues(Range(input)))
        => /\ batches = 0
           /\ \A i \in Ids : getObjectCalls[i] = 0
           /\ objects = input
           /\ pc \in {"loop", "done"}
           /\ pc = "loop" => iterationCount = 0
           /\ pc = "done" => iterationCount = 1

\* a returned call on an input that holds a self-reference and a reference
\* to another input object
C3_Witness ==
    /\ pc = "done"
    /\ input = <<ObjRef("a", "a"), ObjRef("b", "a")>>
    /\ objects = input

\* C4: the working list only grows at its end: each step keeps the list it
\* found, and the input list, as a prefix.
C4_AppendOnly == [][IsPrefix(objects, objects') /\ IsPrefix(input, objects')]_vars

\* a returned call that appended fetched objects to a non-empty input
C4_Witness == pc = "done" /\ Len(input) > 0 /\ Len(objects) > Len(input)

\* the objects a settled batch contributes: what each fulfilled fetch returned
OkObjects ==
    SelectSeq([k \in 1..Len(results) |->
                  IF k \in rejected THEN Null ELSE store[missingIdsArray[k]]], Truthy)

\* C5: a pass in which fetches are rejected raises no error, neither when a
\* fetch is rejected nor later; when the batch has settled, exactly the objects fetched successfully are appended, in
\* batch order, and the call is back at the loop test for the next pass.
C5_PartialFailure ==
    [][(pc = "await" /\ (rejected # {} \/ rejected' # {}))
          => /\ pc' \in {"await", "loop"}
             /\ pc' = "loop" => objects' = objects \o OkObjects
             /\ pc' = "await" => objects' = objects]_vars

\* the second pass has started after a first pass in which one fetch was
\* rejected and another one delivered an object
C5_Witness ==
    /\ pc = "await"
    /\ iterationCount = 2
    /\ \A k \in 1..Len(results) : results[k] = Pending
    /\ \E i \in Ids : warnings[i] > 0
    /\ Len(objects) > Len(input)

\* C6 (as stated): an id whose fetch failed is never fetched again.
C6_Original ==
    \A k \in 1..Len(results) : results[k] = Pending => warnings[missingIdsArray[k]] = 0

\* C6 (amended): an id whose fetch failed contributes no object in that pass
\* and is fetched again in the next pass while it is still missing: whenever
\* the loop test is passed with such an id missing, a batch is issued and the
\* id is part of it.
C6_FailedIdRetried ==
    [][(pc = "loop" /\ iterationCount < maxIterations)
          => \A i \in Ids :
                (warnings[i] > 0 /\ Str(i) \notin IdValues(Range(objects)))
                    => /\ pc' = "await"
                       /\ \E k \in 1..Len(missingIdsArray') : missingIdsArray'[k] = i]_vars

\* a fetch in flight for an id that was warned about in an earlier pass
C6_Witness ==
    /\ pc = "await"
    /\ \E k \in 1..Len(results) :
          results[k] = Pending /\ warnings[missingIdsArray[k]] > 0

\* C7: an id missing from the input whose fetch fails every time is fetched
\* once in every pass, 10 times in all, and the call then returns without it.
C7_PermanentFailure ==
    \A i \in Ids :
        (AlwaysFails(i) /\ i \in Range(missingIdsOf(input)))
            => /\ pc # "threw"
               /\ getObjectCalls[i] = batches
               /\ pc = "await" => batches = iterationCount
               /\ pc = "loop" => batches = iterationCount
               /\ pc = "done" => /\ getObjectCalls[i] = maxIterations
                                 /\ warnings[i] = maxIterations
                                 /\ Str(i) \notin IdValues(Range(objects))

\* a returned call that fetched an always-failing id 10 times
C7_Witness ==
    /\ pc = "done"
    /\ \E i \in Ids : /\ AlwaysFails(i)
                      /\ i \in Range(missingIdsOf(input))
                      /\ getObjectCalls[i] = maxIterations

\* C8: while a fetch of the batch is in flight, the list is not extended, no
\* new pass is started and no further fetch is issued.
C8_Barrier ==
    [][~AllSettled
          => /\ objects' = objects
             /\ iterationCount' = iterationCount
             /\ getObjectCalls' = getObjectCalls
             /\ missingIdsArray' = missingIdsArray
             /\ pc' = "await"]_vars

\* a later pass whose batch is partly settled: one fetch done, one in flight
C8_Witness ==
    /\ pc = "await"
    /\ iterationCount >= 2
    /\ \E j, k \in 1..Len(results) : results[j] = Pending /\ results[k] # Pending

RECURSIVE RefClosure(_, _, _)
\* the set the resolver is to compute, pass by pass, as a union of sets: in
\* each pass the missing ids are fetched with the loader's outcome for them
RefClosure(S, f, n) ==
    LET m == {r.s : r \in {q \in StringRefs(S) : q.s # "" /\ q \notin IdValues(S)}}
    IN IF n = 0 \/ m = {} THEN S
       ELSE RefClosure(S \cup {store[i] : i \in {j \in m : f[j] = 0 /\ Truthy(store[j])}},
                       [i \in Ids |-> IF i \in m /\ f[i] > 0 THEN f[i] - 1 ELSE f[i]],
                       n - 1)

\* C9: the ids of the returned set depend only on the input, the store and
\* the loader's per-id outcomes, not on the order in which fetches settle.
C9_OrderIndependent ==
    pc = "done"
        => IdValues(Range(objects))
              = IdValues(RefClosure(Range(input), [i \in Ids |-> failures[i] + warnings[i]],
                                    maxIterations))

\* a returned call that had a pass with two or more concurrent fetches
C9_Witness ==
    /\ pc = "done"
    /\ getObjectCalls["b"] > 0
    /\ getObjectCalls["c"] > 0
    /\ ObjDeep("a", "b", "c") \in Range(input)
    /\ Len(objects) > Len(input)

----------------------------------------------------------------------------
(* Properties of the object filter *)

TypeText(o) == IF Get(o, "speckle_type").k = "str" THEN Get(o, "speckle_type").s ELSE ""

IsExcludedType(t) == t = "Speckle.Core.Models.DataChunk" \/ Includes(t, "Objects.Other.RawEncoding")

\* a non-excluded object whose speckle_type contains DataObject
IsKeptDataObject(o) == Includes(TypeText(o), "DataObject") /\ ~IsExcludedType(TypeText(o))

\* o without its __closure, totalChildrenCount and renderMaterialProxies entries
Stripped(o) ==
    Map(SelectSeq(o.c, LAMBDA e :
            e.key \notin {"__closure", "totalChildrenCount", "renderMaterialProxies"}))

\* the json of the output items paired with input item n (counted from 0)
OutputsFor(n) ==
    LET out == SelectSeq(returnData, LAMBDA r : r.pairedItem = n)
    IN [i \in 1..Len(out) |-> out[i].json]

\* C10: when an input array holds a non-excluded object whose speckle_type
\* contains DataObject, the output for that item is exactly the cleaned
\* non-excluded DataObject objects of the array, in input order.
C10_DataObjectMode ==
    \A n \in 1..Len(items) :
        (/\ itemIndex >= n
         /\ items[n].json.k = "arr"
         /\ \E i \in 1..Len(items[n].json.c) : IsKeptDataObject(items[n].json.c[i].val))
            => LET kept == SelectSeq(Elements(items[n].json), IsKeptDataObject)
               IN OutputsFor(n - 1) = [i \in 1..Len(kept) |-> Stripped(kept[i])]

\* a returned call whose input array held a raw DataObject next to a wall
C10_Witness ==
    /\ qpc = "done"
    /\ items[1].json = Arr(<<TypedObj("Objects.BuiltElements.Wall"), RawObj("Objects.Data.DataObject")>>)
    /\ Len(returnData) = 1

\* C11: when no object of an input array is a non-excluded DataObject, the
\* output for that item is exactly the cleaned objects of the array that are
\* not excluded, in input order; only the type DataChunk itself and types
\* containing Objects.Other.RawEncoding are excluded, an object without
\* speckle_type is kept.
C11_FallbackMode ==
    \A n \in 1..Len(items) :
        (/\ itemIndex >= n
         /\ items[n].json.k = "arr"
         /\ \A i \in 1..Len(items[n].json.c) : ~IsKeptDataObject(items[n].json.c[i].val))
            => LET kept == SelectSeq(Elements(items[n].json),
                                     LAMBDA o : ~IsExcludedType(TypeText(o)))
               IN OutputsFor(n - 1) = [i \in 1..Len(kept) |-> Stripped(kept[i])]

\* a returned call on a DataChunk, which is dropped, and an object named
\* DataChunkList, which is kept
C11_Witness ==
    /\ qpc = "done"
    /\ items[1].json = Arr(<<TypedObj("Speckle.Core.Models.DataChunk"),
                             TypedObj("Speckle.Core.Models.DataChunkList")>>)
    /\ Len(returnData) = 1

RemovedKeys == {"__closure", "totalChildrenCount", "renderMaterialProxies"}

KeysOf(o) == {o.c[i].key : i \in 1..Len(o.c)}

\* C12: every object output for an input array has none of the keys
\* __closure, totalChildrenCount, renderMaterialProxies and is an object of
\* that array with all its other top-level keys and their values.
C12_FieldStripping ==
    \A j \in 1..Len(returnData) :
        items[returnData[j].pairedItem + 1].json.k = "arr"
            => LET out == returnData[j].json
               IN /\ KeysOf(out) \cap RemovedKeys = {}
                  /\ \E o \in Range(Elements(items[returnData[j].pairedItem + 1].json)) :
                        /\ KeysOf(out) = KeysOf(o) \ RemovedKeys
                        /\ \A key \in KeysOf(out) : Get(out, key) = Get(o, key)

\* a returned call that output an object that came with all three keys
C12_Witness ==
    /\ qpc = "done"
    /\ items[1].json = Arr(<<RawObj("Objects.Data.DataObject"), UntypedObj>>)
    /\ Len(returnData) = 1
    /\ KeysOf(returnData[1].json) = {"id", "speckle_type"}

----------------------------------------------------------------------------
(* Further properties of Query Objects *)

\* C26: cleaning and filtering is idempotent: for every input array, applying
\* cleanObjects then filterObjects to the objects output for it returns the
\* same sequence of objects, whether the array was filtered in DataObject
\* mode or in fallback mode.
C26_Idempotent ==
    \A n \in 1..Len(items) :
        (itemIndex >= n /\ items[n].json.k = "arr")
            => filterObjects(cleanObjects(OutputsFor(n - 1))) = OutputsFor(n - 1)

\* a returned call in fallback mode that dropped a DataChunk and stripped
\* totalChildrenCount from the object it kept
C26_Witness ==
    /\ qpc = "done"
    /\ items[1].json = Arr(<<TypedObj("Speckle.Core.Models.DataChunk"), UntypedObj>>)
    /\ OutputsFor(0) = <<ObjPlain("a")>>
    /\ filterObjects(cleanObjects(OutputsFor(0))) = <<ObjPlain("a")>>

----------------------------------------------------------------------------
(* Properties of the property flattener *)

\* the call was made with the default parent path and no claimed names
IsDefaultCall == parentPath = "" /\ existingFields = {}

\* the value the flattener processes: the properties of the input, else the input
ValueToProcess(record) ==
    IF record # Null /\ record.k = "map" /\ HasKey(record, "properties")
    THEN Get(record, "properties")
    ELSE record

\* a mapping with both a name key and a value key
IsNameValue(v) == v.k = "map" /\ HasKey(v, "name") /\ HasKey(v, "value")

RECURSIVE NameValueRecords(_)
\* the name/value records among the fields of v and of the mappings nested in it
NameValueRecords(v) ==
    IF v.k # "map" THEN {}
    ELSE UNION {IF IsNameValue(v.c[i].val) THEN {v.c[i].val}
                ELSE NameValueRecords(v.c[i].val) : i \in 1..Len(v.c)}

Payload == Get(inputRecord, "properties")

HasPayload == IsDefaultCall /\ inputRecord.k = "map" /\ Payload.k = "map"

\* parent path + '.' + field key
Dotted(parent, key) == IF parent = "" THEN key ELSE parent \o "." \o key

RECURSIVE NameValueFields(_, _)
\* the name/value fields of v and of the mappings nested in it, in enumeration
\* order, each with the dotted path of the mapping it sits in
NameValueFields(v, parent) ==
    LET RECURSIVE from(_)
        from(i) ==
            IF i > Len(v.c) THEN <<>>
            ELSE (IF IsNameValue(v.c[i].val)
                  THEN <<[parent |-> parent, key |-> v.c[i].key, rec |-> v.c[i].val]>>
                  ELSE IF v.c[i].val.k = "map"
                  THEN NameValueFields(v.c[i].val, Dotted(parent, v.c[i].key))
                  ELSE <<>>) \o from(i + 1)
    IN from(1)

\* the suffixes built from the segments of a parent path, nearest parent first
ParentSuffixes(parent) ==
    LET reversed == Reverse(SplitDot(parent))
    IN {JoinDot(SubSeq(reversed, 1, depth)) : depth \in 1..Len(reversed)}

\* C14: when two name/value fields carry the same name and sit under two
\* different non-empty parent paths (neither field on an excluded path), the
\* output holds both values: the first-enumerated one under the bare name, the
\* second under name + '.' + a suffix built from the second field's
\* parent-path segments.
C14_CollisionSuffixing ==
    (fpc = "done" /\ HasPayload) =>
        LET nv == NameValueFields(Payload, "")
        IN (/\ Len(nv) = 2
            /\ Get(nv[1].rec, "name").k = "str"
            /\ Get(nv[1].rec, "name") = Get(nv[2].rec, "name")
            /\ nv[1].parent # ""
            /\ nv[2].parent # ""
            /\ nv[1].parent # nv[2].parent
            /\ \A i \in 1..2 : ~isPathExcluded(Dotted(nv[i].parent, nv[i].key)))
              => LET name == Get(nv[1].rec, "name").s
                 IN /\ HasKey(flattened, name)
                    /\ Get(flattened, name) = Get(nv[1].rec, "value")
                    /\ \E suffix \in ParentSuffixes(nv[2].parent) :
                          /\ HasKey(flattened, name \o "." \o suffix)
                          /\ Get(flattened, name \o "." \o suffix) = Get(nv[2].rec, "value")

\* the dotted path contains one of the three excluded substrings
OnExcludedPath(path) ==
    \E e \in {"Composite Structure", "Material Quantities",
              "Parameters.Type Parameters.Structure"} : Includes(path, e)

RECURSIVE Prune(_, _)
\* the mapping v without the fields on an excluded path, at every depth
Prune(v, parent) ==
    LET kept == SelectSeq(v.c, LAMBDA e : ~OnExcludedPath(Dotted(parent, e.key)))
    IN Map([i \in 1..Len(kept) |->
               IF kept[i].val.k = "map" /\ ~IsNameValue(kept[i].val)
               THEN Entry(kept[i].key, Prune(kept[i].val, Dotted(parent, kept[i].key)))
               ELSE kept[i]])

\* C15: a field whose dotted path contains 'Composite Structure', 'Material
\* Quantities' or 'Parameters.Type Parameters.Structure' contributes no key to
\* the output, and neither does anything nested below it: the output is the
\* one the payload gives once every such field is taken out of it.
C15_PathExclusion ==
    (fpc = "done" /\ HasPayload) =>
        flattened = flattenRecord(WithProperties(Prune(Payload, "")), "", {})

C15_Witness ==
    /\ fpc = "done"
    /\ Payload = Map(<<TreeField("A", <<"Composite Structure">>, Dimensions),
                       TreeField("B", <<"C">>, NameValue(Str("volume"), Num(2)))>>)
    /\ flattened = Map(<<Entry("volume", Num(2))>>)

RECURSIVE LeafFields(_, _)
\* the fields of v and of the mappings nested in it (name/value records apart)
\* that hold a scalar, null or an array, each with the dotted path of the
\* mapping it sits in
LeafFields(v, parent) ==
    UNION {IF v.c[i].val.k = "map"
           THEN IF IsNameValue(v.c[i].val) THEN {}
                ELSE LeafFields(v.c[i].val, Dotted(parent, v.c[i].key))
           ELSE {[parent |-> parent, key |-> v.c[i].key, val |-> v.c[i].val]} :
           i \in 1..Len(v.c)}

\* the names resolveFieldName can give a field: its own, or its own with a
\* suffix of parent segments
ResolvedNames(key, parent) ==
    {key} \cup (IF parent = "" THEN {}
                ELSE {key \o "." \o suffix : suffix \in ParentSuffixes(parent)})

\* C16: a field holding an array, at any nesting depth outside excluded paths,
\* appears in the output as the same array, unmodified and not flattened
\* element by element, under its collision-resolved field name.
C16_ArrayPreserved ==
    (fpc = "done" /\ HasPayload) =>
        \A f \in LeafFields(Payload, "") :
            (f.val.k = "arr" /\ ~OnExcludedPath(Dotted(f.parent, f.key)))
                => \E name \in ResolvedNames(f.key, f.parent) :
                      HasKey(flattened, name) /\ Get(flattened, name) = f.val

\* every value of the mapping is a scalar, null or an array
IsFlat(v) == v.k = "map" /\ \A i \in 1..Len(v.c) : v.c[i].val.k \in {"num", "str", "null", "arr"}

\* the (key, value) pairs of a mapping
EntriesOf(v) == {<<v.c[i].key, v.c[i].val>> : i \in 1..Len(v.c)}

\* C17 as stated: flattening an already-flat properties mapping returns a
\* record with exactly the same keys and the same values, for every choice of
\* key names.
C17_Original ==
    (fpc = "done" /\ HasPayload /\ IsFlat(Payload)) =>
        /\ EntriesOf(flattened) = EntriesOf(Payload)
        /\ Len(flattened.c) = Len(Payload.c)

\* C17: flattening an already-flat properties mapping returns a record with
\* exactly the keys that contain none of the excluded substrings, each with
\* the value it had; a key that contains one is dropped.
C17_FlatRoundTrip ==
    (fpc = "done" /\ HasPayload /\ IsFlat(Payload)) =>
        LET kept == {e \in EntriesOf(Payload) : ~OnExcludedPath(e[1])}
        IN /\ EntriesOf(flattened) = kept
           /\ Len(flattened.c) = Cardinality(kept)

C17_Witness ==
    /\ fpc = "done"
    /\ IsDefaultCall
    /\ Payload = Map(<<Entry("Material Quantities", Num(600)),
                       Entry("volume", Arr(<<Num(1), Str("x")>>))>>)
    /\ flattened = Map(<<Entry("volume", Arr(<<Num(1), Str("x")>>))>>)

\* C18: flattenRecord does not fail on degenerate input: when the value to
\* process is null or absent the result is the empty map {}, and when it is a
\* bare scalar or an array the result is exactly { Value: that value }.
C18_DegenerateInput ==
    fpc = "done" =>
        LET v == ValueToProcess(inputRecord)
        IN /\ v.k \in {"null", "undef"} => flattened = Map(<<>>)
           /\ v.k \in {"num", "str", "arr"} => flattened = Map(<<Entry("Value", v)>>)

RECURSIVE IsChain(_)
\* a chain of nested single-key mappings that ends in a name/value field
IsChain(v) ==
    /\ v.k = "map"
    /\ Len(v.c) = 1
    /\ (IsNameValue(v.c[1].val) \/ IsChain(v.c[1].val))

\* C19: a field whose value is a mapping with both a name key and a value key
\* (and that is not on an excluded path) yields exactly one output entry,
\* keyed by the name and holding the value as it is; its other keys are
\* dropped and nothing is emitted when the name is null. Hence a chain of
\* nested single-key mappings ending in Depth: {name: 'Depth', value: 600}
\* flattens to exactly {Depth: 600}.
C19_NameValueExtraction ==
    (fpc = "done" /\ HasPayload /\ IsChain(Payload)) =>
        LET f == NameValueFields(Payload, "")[1]
        IN ~OnExcludedPath(Dotted(f.parent, f.key)) =>
              IF Get(f.rec, "name") = Null
              THEN flattened = Map(<<>>)
              ELSE flattened = Map(<<Entry(Get(f.rec, "name").s, Get(f.rec, "value"))>>)

----------------------------------------------------------------------------
(* Frame of the filter and of the flattener *)

----------------------------------------------------------------------------
(* The merge step, name resolution and the root of the flattener *)

\* the record the field loop of the call runs over
RootRecord == ValueToProcess(inputRecord)

\* the loop state before the i-th root field is processed
StateBefore(i) ==
    flattenFields(Map(SubSeq(RootRecord.c, 1, i - 1)), 1, parentPath,
                  FlatState(Map(<<>>), existingFields))

\* the i-th root field is a nested mapping that reaches the merge step
IsMerged(i) ==
    LET e == RootRecord.c[i]
    IN /\ e.val.k = "map"
       /\ ~IsNameValue(e.val)
       /\ Len(e.val.c) > 0
       /\ ~OnExcludedPath(Dotted(parentPath, e.key))

\* what the recursive flattening of the i-th root field returns
Recursed(i) ==
    flattenRecordImpl(RootRecord.c[i].val, Dotted(parentPath, RootRecord.c[i].key),
                      StateBefore(i).ExistingFieldsSet)

\* the keys of the recursed record that the accumulated record already has
Collisions(i) == KeysOf(Recursed(i)) \cap KeysOf(StateBefore(i).FlattenedRecord)

Candidate(name, parent, depth) ==
    LET segments == SplitDot(parent)
        k == Len(segments)
    IN name \o "." \o JoinDot([j \in 1..depth |-> segments[k + 1 - j]])

\* the call flattens a payload of one field that resolves the given name
ResolvesOne(name) ==
    /\ inputRecord.k = "map"
    /\ Get(inputRecord, "properties").k = "map"
    /\ Len(Get(inputRecord, "properties").c) = 1
    /\ LET e == Get(inputRecord, "properties").c[1]
       IN /\ ~OnExcludedPath(Dotted(parentPath, e.key))
          /\ \/ e.val.k \in {"num", "str", "null", "arr"} /\ e.key = name
             \/ IsNameValue(e.val) /\ Get(e.val, "name") = Str(name)

\* C22: resolveFieldName(name, parentPath, existing) returns name when name is
\* not in existing; otherwise, for a non-empty parentPath s1.s2...sk, the
\* first of name.sk, name.sk.s(k-1), ..., name.sk...s1 that is not in
\* existing, and the last of them when all are in existing.
C22_ResolveFieldName ==
    (fpc = "done" /\ ResolvesOne("volume")) =>
        LET k == Len(SplitDot(parentPath))
            free == {d \in 1..k : Candidate("volume", parentPath, d) \notin existingFields}
            key == flattened.c[1].key
        IN /\ Len(flattened.c) = 1
           /\ "volume" \notin existingFields => key = "volume"
           /\ ("volume" \in existingFields /\ parentPath # "") =>
                 /\ \A d \in free :
                       (\A e \in free : d <= e) => key = Candidate("volume", parentPath, d)
                 /\ free = {} => key = Candidate("volume", parentPath, k)

C22_Witness ==
    /\ fpc = "done"
    /\ ResolvesOne("volume")
    /\ parentPath = "Parameters.Structural"
    /\ existingFields = {"volume", "volume.Structural"}
    /\ KeysOf(flattened) = {"volume.Structural.Parameters"}

\* the i-th root field is one that resolves a name and stores a value under it
StoresValue(i) ==
    LET e == RootRecord.c[i]
    IN /\ ~OnExcludedPath(Dotted(parentPath, e.key))
       /\ \/ e.val.k # "map"
          \/ IsNameValue(e.val) /\ Get(e.val, "name").k = "str"

\* the name the i-th root field asks for, and the value it stores
NameAsked(i) ==
    LET e == RootRecord.c[i]
    IN IF IsNameValue(e.val) THEN Get(e.val, "name").s ELSE e.key

ValueStored(i) ==
    LET e == RootRecord.c[i]
    IN IF IsNameValue(e.val) THEN Get(e.val, "value") ELSE e.val

\* C23: when a field processed at the flattening root (empty parent path)
\* resolves to a name that is already claimed, the name is used unchanged and
\* the output has a single entry for it holding the value of the field
\* enumerated later; the earlier value is overwritten, no suffixed key is
\* created.
C23_RootCollision ==
    (fpc = "done" /\ RootRecord.k = "map" /\ parentPath = "") =>
        \A i \in 1..Len(RootRecord.c) :
            (StoresValue(i) /\ NameAsked(i) \in StateBefore(i).ExistingFieldsSet) =>
                LET before == StateBefore(i).FlattenedRecord
                    after == StateBefore(i + 1).FlattenedRecord
                IN /\ Get(after, NameAsked(i)) = ValueStored(i)
                   /\ KeysOf(after) = KeysOf(before) \cup {NameAsked(i)}
                   /\ Len(after.c) = Cardinality(KeysOf(after))
                   /\ i = Len(RootRecord.c) =>
                         /\ flattened = after
                         /\ Get(flattened, NameAsked(i)) = ValueStored(i)

C23_Witness ==
    /\ fpc = "done"
    /\ IsDefaultCall
    /\ Payload = Map(<<TreeField("volume", <<>>, Num(600)),
                       TreeField("B", <<>>, NameValue(Str("volume"), Num(2)))>>)
    /\ flattened = Map(<<Entry("volume", Num(2))>>)

----------------------------------------------------------------------------
(* Further properties of the reference resolver *)

\* no two objects of the list carry the same id
DistinctIds(objs) ==
    \A j, k \in 1..Len(objs) : j # k => Get(objs[j], "id") # Get(objs[k], "id")

\* every getObject({ id: i }) that resolves with an object gives one whose id is i
FaithfulStore == \A i \in Ids : store[i] = Null \/ Get(store[i], "id") = Str(i)

\* C24: if the ids of the input objects are pairwise distinct and every
\* successful fetch of i returns an object whose id is i, then after every
\* pass the ids in the working set are pairwise distinct: within a pass each
\* missing id is fetched exactly once and no object is appended twice.
C24_DistinctIds ==
    (pc # "idle" /\ DistinctIds(input) /\ FaithfulStore) =>
        /\ DistinctIds(objects)
        /\ \A j, k \in 1..Len(missingIdsArray) :
              j # k => missingIdsArray[j] # missingIdsArray[k]
        /\ \A i \in Ids : getObjectCalls[i] <= batches
        /\ \A k \in 1..Len(missingIdsArray) :
              Str(missingIdsArray[k]) \notin IdValues(Range(objects))

C24_Witness ==
    /\ pc = "done"
    /\ input = <<ObjDeep("a", "b", "c")>>
    /\ store["b"] = ObjRef("b", "c")
    /\ store["c"] = ObjPlain("c")
    /\ warnings["b"] = 1
    /\ getObjectCalls["b"] = 2
    /\ getObjectCalls["c"] = 1
    /\ objects = <<ObjDeep("a", "b", "c"), ObjPlain("c"), ObjRef("b", "c")>>

\* every getObject call made during the call resolved with the object asked for
EveryFetchSucceeds ==
    /\ \A i \in DOMAIN store : store[i] # Null /\ Get(store[i], "id") = Str(i)
    /\ \A i \in DOMAIN failures : failures[i] = 0 /\ warnings[i] = 0

\* the ids referenced by the stored objects of a set of ids
RefsOfStored(ids) ==
    UNION {Range(extractReferencedIds(store[i], <<>>)) : i \in ids \cap DOMAIN store}

RECURSIVE MissingAt(_, _, _)
\* the ids whose chain of successive missing references from the input has
\* exactly k links, given the ids known so far and those found one link earlier
MissingAt(k, known, frontier) ==
    IF k = 1 THEN frontier
    ELSE MissingAt(k - 1, known \cup frontier, RefsOfStored(frontier) \ (known \cup frontier))

\* the ids that are k missing references away from the input
Level(k) ==
    LET ids == {v.s : v \in IdValues(Range(input))}
    IN MissingAt(k, ids, Range(collectReferencedIds(input, 1, <<>>)) \ ids)

\* C25: when every fetch succeeds, the returned set has no missing reference
\* if and only if every missing object is reachable from the initial set
\* through a chain of at most 10 successive missing references; references
\* first discovered in objects fetched during the 10th pass are never fetched.
C25_DepthCap ==
    (pc # "idle" /\ EveryFetchSucceeds) =>
        /\ pc = "done" => (Len(missingIdsOf(objects)) = 0 <=> Level(11) = {})
        /\ \A i \in Level(11) :
              getObjectCalls[i] = 0 /\ Str(i) \notin IdValues(Range(objects))

C25_Witness ==
    /\ pc = "done"
    /\ EveryFetchSucceeds
    /\ Level(11) = {"11"}
    /\ batches = 10
    /\ getObjectCalls["10"] = 1
    /\ getObjectCalls["11"] = 0
    /\ missingIdsOf(objects) = <<"11">>


\* no field of the payload, at any depth, sits on an excluded path
NoExcludedPath == Prune(Payload, "") = Payload

\* no two scalar, null or array leaves of the payload share a field name
DistinctLeafNames ==
    \A f, g \in LeafFields(Payload, "") : f.key = g.key => f = g

\* C27: flattening loses no leaf: for an object whose properties tree has no
\* excluded path, no name/value record and no two leaves with the same field
\* name, every scalar, null or array leaf at any depth (also in a nested
\* mapping that has a key named properties next to other keys) is in the
\* output under its own field name with its own value, and the output has no
\* other keys.
C27_NoLeafLost ==
    (/\ fpc = "done"
     /\ HasPayload
     /\ NoExcludedPath
     /\ NameValueRecords(Payload) = {}
     /\ DistinctLeafNames)
        => /\ EntriesOf(flattened) = {<<f.key, f.val>> : f \in LeafFields(Payload, "")}
           /\ Len(flattened.c) = Cardinality(LeafFields(Payload, ""))


----------------------------------------------------------------------------
(* Properties of the Upload File poll loop *)

\* the results pushed for input item idx
UploadResultsOf(idx) == SelectSeq(uploadReturnData, LAMBDA r : r.pairedItem = idx)

\* item idx reached the poll loop and the handler is done with it
PolledAndFinished(idx) ==
    /\ idx \in reachedPolling
    /\ idx < uploadItemIndex \/ (idx = uploadItemIndex /\ upc = "threw")

\* some poll of the current item gave this outcome
Polled(outcome) == \E late \in BOOLEAN : <<outcome, late>> \in polled

\* polling of the current item completed without success: a poll gave failed
\* or cancelled, or a null ingestion record at attempt 5 or later
CompletedOtherwise == Polled("failed") \/ Polled("cancelled") \/ <<"null", TRUE>> \in polled

\* C28: for every upload item that reaches the status-polling step, the poll
\* loop issues at most 60 status queries and then stops, and the item yields
\* exactly one result: status 'success' iff some poll returned status
\* 'success'; status 'error' iff polling completed otherwise (status 'failed'
\* or 'cancelled', or a null ingestion record at attempt 5 or later); status
\* 'timeout' iff 60 attempts elapsed without completion. A poll request that
\* throws consumes one attempt and does not abort polling.
C28_PollLoop ==
    /\ statusQueries <= 60
    /\ pollAttempt = statusQueries
    /\ \A idx \in 0..(uploadItems - 1) :
          PolledAndFinished(idx) =>
              /\ Len(UploadResultsOf(idx)) = 1
              /\ UploadResultsOf(idx)[1].status \in {"success", "error", "timeout"}
    /\ (upc \in {"item", "done"} /\ PolledAndFinished(uploadItemIndex - 1)
            /\ Len(UploadResultsOf(uploadItemIndex - 1)) = 1) =>
          LET status == UploadResultsOf(uploadItemIndex - 1)[1].status
          IN /\ status = "success" <=> Polled("success")
             /\ status = "error" <=> CompletedOtherwise
             /\ status = "timeout" <=>
                   (statusQueries = 60 /\ ~Polled("success") /\ ~CompletedOtherwise)

\* C29: a status poll whose ingestion record is present but carries no
\* statusData is treated as status 'queued': polling continues with the next
\* attempt and no error is raised for the item.
C29_MissingStatusDataQueued ==
    [][(upc = "poll" /\ statusQueries' = statusQueries + 1
            /\ <<"noStatusData", pollAttempt' >= 5>> \in polled' \ polled)
        => /\ upc' = "poll"
           /\ ~importComplete'
           /\ uploadReturnData' = uploadReturnData]_vars


----------------------------------------------------------------------------
(* Properties of Load Model *)

\* the handler is done with item idx: it moved on, returned or rethrew
LoadFinished(idx) == idx < loadItemIndex \/ lpc \in {"done", "threw"}

\* C30: for every input item for which an object loader was created,
\* loader.disposeAsync is invoked exactly once, after download and reference
\* resolution finished or failed and before the next item is processed,
\* whether the item succeeds, fails with continueOnFail or fails by
\* rethrowing; an error raised by disposeAsync does not change the item's
\* result. No call is made for an item without a loader.
C30_DisposeOnce ==
    lpc # "idle" =>
        \A idx \in 0..(loadItems - 1) :
            /\ disposeCalls[idx] <= 1
            /\ idx \notin created => disposeCalls[idx] = 0
            /\ (idx \in created /\ LoadFinished(idx)) => disposeCalls[idx] = 1
            /\ (idx = loadItemIndex /\ lpc \in {"download", "resolve"}) => disposeCalls[idx] = 0
            /\ disposeCalls[idx] = 1 => LoadResultsOf(idx) = resultAtDispose[idx]

\* two items without continueOnFail: the first one succeeded and its
\* disposeAsync rejected, the second one failed after its loader was created
\* and the handler rethrew, each loader disposed once
C30_Witness ==
    /\ lpc = "threw"
    /\ ~loadContinueOnFail
    /\ created = {0, 1}
    /\ rethrow
    /\ loadReturnData = <<LoadOut("objects", 0)>>
    /\ disposeRejects[0] = 1
    /\ disposeCalls[0] = 1
    /\ disposeCalls[1] = 1

====
